---- MODULE Spec2Model ----
(***************************************************************************)
(* A model of nobsign (src/src/lib.rs): Signer and TimestampSigner.        *)
(*                                                                         *)
(* Text (Rust &str / String) is a sequence of byte codes; every character  *)
(* used here is ASCII, so a char and its UTF-8 byte coincide.  Byte        *)
(* strings (&[u8], Vec<u8>) are sequences of 0..255.                       *)
(*                                                                         *)
(* 32-bit machine words (i32, u32, and the low half of the u64 clock       *)
(* reading) are pairs <<hi, lo>> of 16-bit limbs, because the rust code's  *)
(* wrap-around and casts are part of what is checked.                      *)
(***************************************************************************)
EXTENDS Integers, Sequences, FiniteSets, TLC

(***************************************************************************)
(* Program constants.                                                      *)
(***************************************************************************)
\* const EPOCH: u64 = 1293840000
EPOCH == 1293840000

\* digest::SHA1 has a 20 byte output (ALGORITHM.output_len)
OutputLen == 20

\* Signer { separator: '.' }
SEPARATOR == 46

\* the '=' padding byte of the base64 crate
PAD_BYTE == 61

\* b"nobi.Signer"
NobiSigner == <<110, 111, 98, 105, 46, 83, 105, 103, 110, 101, 114>>

(***************************************************************************)
(* 32-bit words as two 16-bit limbs.                                       *)
(***************************************************************************)
Limb == 256 * 256

WordOfNat(n) == <<n \div Limb, n % Limb>>

\* unsigned order of two words
ULess(a, b) == a[1] < b[1] \/ (a[1] = b[1] /\ a[2] < b[2])

ULessEq(a, b) == a = b \/ ULess(a, b)

\* two's complement sign bit
IsNeg(a) == a[1] >= 32768

\* signed (i32) order of two words:  a > b
SGreater(a, b) ==
    IF IsNeg(a) # IsNeg(b) THEN IsNeg(b) ELSE ULess(b, a)

\* a - b modulo 2^32
WrappingSub(a, b) ==
    LET borrow == IF a[2] < b[2] THEN 1 ELSE 0
        lo == (a[2] - b[2] + Limb) % Limb
        hi == (a[1] - b[1] - borrow + 2 * Limb) % Limb
    IN  <<hi, lo>>

\* a + b modulo 2^32
WrappingAdd(a, b) ==
    LET s == a[2] + b[2]
    IN  <<(a[1] + b[1] + (s \div Limb)) % Limb, s % Limb>>

\* the i32 subtraction a - b leaves the i32 range
SubOverflows(a, b) ==
    IsNeg(a) # IsNeg(b) /\ IsNeg(WrappingSub(a, b)) # IsNeg(a)

(***************************************************************************)
(* int_to_bytes / bytes_to_int: little-endian i32.                         *)
(***************************************************************************)
int_to_bytes(n) ==
    <<n[2] % 256, n[2] \div 256, n[1] % 256, n[1] \div 256>>

\* the assert!(n.len() == 4) of bytes_to_int
bytes_to_int_asserts(n) == Len(n) = 4

bytes_to_int(n) ==
    <<n[3] + 256 * n[4], n[1] + 256 * n[2]>>

(***************************************************************************)
(* base64, URL_SAFE_NO_PAD.                                                *)
(***************************************************************************)
\* the URL-safe alphabet: A-Z a-z 0-9 - _
B64Char(i) ==
    IF i < 26 THEN 65 + i
    ELSE IF i < 52 THEN 97 + (i - 26)
    ELSE IF i < 62 THEN 48 + (i - 52)
    ELSE IF i = 62 THEN 45
    ELSE 95

\* the decode table; -1 is INVALID_VALUE
B64Value(c) ==
    IF c >= 65 /\ c <= 90 THEN c - 65
    ELSE IF c >= 97 /\ c <= 122 THEN c - 97 + 26
    ELSE IF c >= 48 /\ c <= 57 THEN c - 48 + 52
    ELSE IF c = 45 THEN 62
    ELSE IF c = 95 THEN 63
    ELSE -1

RECURSIVE B64Encode(_)
\* base64::encode_config(bytes, URL_SAFE_NO_PAD): no '=' is appended
B64Encode(b) ==
    IF Len(b) = 0 THEN <<>>
    ELSE IF Len(b) = 1 THEN
        <<B64Char(b[1] \div 4), B64Char((b[1] % 4) * 16)>>
    ELSE IF Len(b) = 2 THEN
        <<B64Char(b[1] \div 4),
          B64Char((b[1] % 4) * 16 + (b[2] \div 16)),
          B64Char((b[2] % 16) * 4)>>
    ELSE
        <<B64Char(b[1] \div 4),
          B64Char((b[1] % 4) * 16 + (b[2] \div 16)),
          B64Char((b[2] % 16) * 4 + (b[3] \div 64)),
          B64Char(b[3] % 64)>> \o B64Encode(SubSeq(b, 4, Len(b)))

\* number of '=' at the end of s
RECURSIVE TrailingPads(_)
TrailingPads(s) ==
    IF s # <<>> /\ s[Len(s)] = PAD_BYTE
    THEN 1 + TrailingPads(SubSeq(s, 1, Len(s) - 1))
    ELSE 0

\* the bytes of a run of valid symbols (its length is not 1 modulo 4);
\* the bits of the last symbol that complete no byte are dropped
RECURSIVE B64Bytes(_)
B64Bytes(d) ==
    IF Len(d) = 0 THEN <<>>
    ELSE IF Len(d) = 2 THEN
        <<B64Value(d[1]) * 4 + (B64Value(d[2]) \div 16)>>
    ELSE IF Len(d) = 3 THEN
        <<B64Value(d[1]) * 4 + (B64Value(d[2]) \div 16),
          (B64Value(d[2]) % 16) * 16 + (B64Value(d[3]) \div 4)>>
    ELSE
        <<B64Value(d[1]) * 4 + (B64Value(d[2]) \div 16),
          (B64Value(d[2]) % 16) * 16 + (B64Value(d[3]) \div 4),
          (B64Value(d[3]) % 4) * 64 + B64Value(d[4])>>
        \o B64Bytes(SubSeq(d, 5, Len(d)))

\* the bits of the last symbol of d that belong to no output byte
LeftoverBits(d) ==
    IF Len(d) % 4 = 2 THEN B64Value(d[Len(d)]) % 16
    ELSE IF Len(d) % 4 = 3 THEN B64Value(d[Len(d)]) % 4
    ELSE 0

DecodeError == [ok |-> FALSE, bytes |-> <<>>]

(***************************************************************************)
(* base64::decode_config(s, URL_SAFE_NO_PAD) of the base64 releases that   *)
(* export decode_config and URL_SAFE_NO_PAD at the crate root.  The        *)
(* decoder of those releases does not consult the padding flag of the      *)
(* configuration: '=' is accepted at the end of the input, in the third    *)
(* or fourth place of the last quad.  An input of length 1 modulo 4 is     *)
(* InvalidLength, a byte outside the alphabet is InvalidByte.  Releases    *)
(* from 0.10 on reject a last symbol with non-zero leftover bits           *)
(* (InvalidLastSymbol); earlier ones drop those bits.  Which release the   *)
(* program is built against is not fixed by the source: checkLast is the   *)
(* build's answer.                                                         *)
(***************************************************************************)
B64Decode(s, checkLast) ==
    LET n == Len(s)
        p == TrailingPads(s)
        d == SubSeq(s, 1, n - p)
    IN  IF n % 4 = 1 THEN DecodeError
        ELSE IF \E i \in 1..Len(d) : B64Value(d[i]) = -1 THEN DecodeError
        ELSE IF p > 2 \/ (p = 2 /\ n % 4 # 0) \/ (p = 1 /\ n % 4 \in {1, 2})
            THEN DecodeError
        ELSE IF checkLast /\ LeftoverBits(d) # 0 THEN DecodeError
        ELSE [ok |-> TRUE, bytes |-> B64Bytes(d)]

(***************************************************************************)
(* ring::hmac with SHA-1.  The hash itself is outside the repository; it   *)
(* is stood in for by a deterministic keyed function with a tag of         *)
(* OutputLen bytes that depends on every byte of the key and of the        *)
(* message.                                                                *)
(***************************************************************************)
RECURSIVE Absorb(_, _, _)
\* the stand-in hash of bytes lo..hi: each byte weighted by its place
Absorb(bytes, lo, hi) ==
    IF lo > hi THEN 0
    ELSE IF lo = hi THEN ((bytes[lo] + 1) * ((lo * lo * 131 + lo * 7 + 1) % 251)) % 65521
    ELSE (Absorb(bytes, lo, (lo + hi) \div 2)
          + Absorb(bytes, ((lo + hi) \div 2) + 1, hi)) % 65521

\* hmac::sign(&SigningKey::new(ALGORITHM, key), msg).as_ref()
HmacSign(key, msg) ==
    LET input == key \o <<256>> \o msg
        h == (5381 + Absorb(input, 1, Len(input))) % 65521
    IN  [i \in 1..OutputLen |->
            IF i = 1 THEN h % 256
            ELSE IF i = 2 THEN h \div 256
            ELSE ((h + 1) * (2 * i + 1) + i) % 256]

\* hmac::verify_with_own_key(key, msg, sig): the tag is recomputed and
\* compared in constant time; a tag of another length never matches
HmacVerify(key, msg, sig) == sig = HmacSign(key, msg)

(***************************************************************************)
(* Results.  kind is "Ok", one of the Error variants, or "Panic" (the      *)
(* thread unwinds: no value is returned).                                  *)
(***************************************************************************)
Ok(v) == [kind |-> "Ok", value |-> v, why |-> ""]

Err(e) == [kind |-> e, value |-> <<>>, why |-> ""]

\* why: "assert" (bytes_to_int), "sub" (i32 subtraction), "epoch" (u64 subtraction)
PanicOf(why) == [kind |-> "Panic", value |-> <<>>, why |-> why]

(***************************************************************************)
(* str::rsplitn(2, |c| c == sep): the pieces in the order the iterator     *)
(* yields them, the text after the last separator first.                   *)
(***************************************************************************)
\* the place of the last sep in s, 0 when there is none
LastIndexOf(s, sep) ==
    LET places == {i \in 1..Len(s) : s[i] = sep}
    IN  IF places = {} THEN 0
        ELSE CHOOSE i \in places : \A j \in places : j <= i

Contains(s, sep) == \E i \in 1..Len(s) : s[i] = sep

\* as splitn(2, ..) would: the split is made at the first separator
RSplitN2_AtFirst(s, sep) ==
    LET places == {i \in 1..Len(s) : s[i] = sep}
        i == IF places = {} THEN 0
             ELSE CHOOSE k \in places : \A j \in places : k <= j
    IN  IF i = 0 THEN <<s>>
        ELSE <<SubSeq(s, i + 1, Len(s)), SubSeq(s, 1, i - 1)>>

RSplitN2(s, sep) ==
    LET i == LastIndexOf(s, sep)
    IN  IF i = 0 THEN <<s>>
        ELSE <<SubSeq(s, i + 1, Len(s)), SubSeq(s, 1, i - 1)>>

(***************************************************************************)
(* Signer                                                                  *)
(***************************************************************************)
SignerNew(secret) ==
    [separator |-> SEPARATOR, key |-> HmacSign(secret, NobiSigner)]

SignerSignature(signer, value) == B64Encode(HmacSign(signer.key, value))

SignerSign(signer, value) ==
    value \o <<signer.separator>> \o SignerSignature(signer, value)

SignerUnsign(signer, value, checkLast) ==
    LET splitted == RSplitN2(value, signer.separator)
    IN  IF Len(splitted) < 1 THEN Err("BadSignature")
        ELSE IF Len(splitted) < 2 THEN Err("BadSignature")
        ELSE LET sig == B64Decode(splitted[1], checkLast)
             IN  IF ~sig.ok THEN Err("BadSignature")
                 ELSE IF ~HmacVerify(signer.key, splitted[2], sig.bytes)
                     THEN Err("BadSignature")
                 ELSE Ok(splitted[2])

(***************************************************************************)
(* TimestampSigner                                                         *)
(*                                                                         *)
(* A clock reading is [pre |-> the system time is before UNIX_EPOCH,       *)
(* secs |-> the whole seconds between the system time and UNIX_EPOCH].     *)
(* The readings of the model lie within 2^32 seconds of UNIX_EPOCH, so     *)
(* the upper half of the u64 is zero and secs is one word.                 *)
(*                                                                         *)
(* The source does not fix the build profile.  With overflow checks (the   *)
(* default of a debug build) an integer overflow panics; without them (the *)
(* default of a release build) the result wraps.                           *)
(***************************************************************************)
EpochWord == WordOfNat(EPOCH)

\* as a TimestampSigner with a purpose string of its own would be keyed
TimestampSignerNew_OwnKey(secret) ==
    [signer |-> [separator |-> SEPARATOR,
                 key |-> HmacSign(secret, NobiSigner \o <<84>>)]]

TimestampSignerNew(secret) == [signer |-> SignerNew(secret)]

\* (dur.as_secs() - EPOCH) as i32, dur taken from Ok(dur) or err.duration()
get_timestamp(now, overflowChecks) ==
    LET secs == now.secs
    IN  IF ULess(secs, EpochWord) /\ overflowChecks THEN PanicOf("epoch")
        ELSE Ok(WrappingSub(secs, EpochWord))

TimestampSignerSignature(ts, value) == SignerSignature(ts.signer, value)

TimestampSignerSign(ts, value, now, overflowChecks) ==
    LET timestamp == get_timestamp(now, overflowChecks)
    IN  IF timestamp.kind = "Panic" THEN timestamp
        ELSE LET bytes == int_to_bytes(timestamp.value)
                 b64 == B64Encode(bytes)
                 composite == value \o <<ts.signer.separator>> \o b64
             IN  Ok(composite \o <<ts.signer.separator>>
                      \o TimestampSignerSignature(ts, composite))

\* max_age as i32: the same 32 bits
AsI32(u) == u

\* age > max_age as i32, after age = self.get_timestamp() - timestamp
AgeCheck(value, timestamp, max_age, now, overflowChecks) ==
    LET current == get_timestamp(now, overflowChecks)
    IN  IF current.kind = "Panic" THEN current
        ELSE IF SubOverflows(current.value, timestamp) /\ overflowChecks
            THEN PanicOf("sub")
        ELSE LET age == WrappingSub(current.value, timestamp)
             IN  IF SGreater(age, AsI32(max_age)) THEN Err("SignatureExpired")
                 ELSE Ok(value)

\* as unsign would be without the contains() test of the payload
TimestampSignerUnsign_NoContains(ts, value, max_age, now, overflowChecks, checkLast) ==
    LET result == SignerUnsign(ts.signer, value, checkLast)
    IN  IF result.kind # "Ok" THEN result
        ELSE LET splitted == RSplitN2(result.value, ts.signer.separator)
             IN  IF Len(splitted) < 1 THEN Err("BadSignature")
                 ELSE IF Len(splitted) < 2 THEN Err("BadSignature")
                 ELSE LET timestamp == B64Decode(splitted[1], checkLast)
                      IN  IF ~timestamp.ok THEN Err("BadTimeSignature")
                          ELSE IF Len(timestamp.bytes) # 4
                              THEN Err("BadTimeSignature")
                          ELSE AgeCheck(splitted[2], bytes_to_int(timestamp.bytes),
                                        max_age, now, overflowChecks)

\* as unsign would be with the timestamp's decode error mapped to BadSignature
TimestampSignerUnsign_DecodeBadSignature(ts, value, max_age, now, overflowChecks, checkLast) ==
    LET result == SignerUnsign(ts.signer, value, checkLast)
    IN  IF result.kind # "Ok" THEN result
        ELSE IF ~Contains(result.value, ts.signer.separator)
            THEN Err("BadTimeSignature")
        ELSE LET splitted == RSplitN2(result.value, ts.signer.separator)
                 timestamp == B64Decode(splitted[1], checkLast)
             IN  IF ~timestamp.ok THEN Err("BadSignature")
                 ELSE IF Len(timestamp.bytes) # 4 THEN Err("BadTimeSignature")
                 ELSE AgeCheck(splitted[2], bytes_to_int(timestamp.bytes),
                               max_age, now, overflowChecks)

TimestampSignerUnsign(ts, value, max_age, now, overflowChecks, checkLast) ==
    LET result == SignerUnsign(ts.signer, value, checkLast)
    IN  IF result.kind # "Ok" THEN result
        ELSE IF ~Contains(result.value, ts.signer.separator)
            THEN Err("BadTimeSignature")
        ELSE LET splitted == RSplitN2(result.value, ts.signer.separator)
             IN  IF Len(splitted) < 1 THEN Err("BadSignature")
                 ELSE IF Len(splitted) < 2 THEN Err("BadSignature")
                 ELSE LET timestamp == B64Decode(splitted[1], checkLast)
                      IN  IF ~timestamp.ok THEN Err("BadTimeSignature")
                          ELSE IF Len(timestamp.bytes) # 4
                              THEN Err("BadTimeSignature")
                          ELSE IF ~bytes_to_int_asserts(timestamp.bytes)
                              THEN PanicOf("assert")
                          ELSE AgeCheck(splitted[2], bytes_to_int(timestamp.bytes),
                                        max_age, now, overflowChecks)

(***************************************************************************)
(* Inputs of the model.                                                    *)
(***************************************************************************)
\* longest value handed to sign
MaxValueLen == 1

\* how many other alphabet symbols replace a symbol of a signature
TamperSpread == 1

\* 'a' and the separator itself
ValueChars == {97, SEPARATOR}

SeqsUpTo(S, n) == UNION {[1..k -> S] : k \in 0..n}

Values == SeqsUpTo(ValueChars, MaxValueLen)

Secrets == {<<109, 121, 45, 107, 101, 121>>, <<0>>}

\* i32 timestamps a holder of the key may sign: 0, 10, i32::MAX, i32::MIN
ForgedTimestamps == {<<0, 0>>, <<0, 10>>, <<32767, 65535>>, <<32768, 0>>}

\* "AB" (1 byte), "ABCDEF" (4 bytes and leftover bits), "AAAAAA==" (padded),
\* "A!" (outside the alphabet), "" (no bytes), "AAAAAAAA" (6 bytes)
OtherSegments ==
    {<<65, 66>>, <<65, 66, 67, 68, 69, 70>>,
     <<65, 65, 65, 65, 65, 65, 61, 61>>, <<65, 33>>, <<>>,
     <<65, 65, 65, 65, 65, 65, 65, 65>>}

TimestampSegments ==
    {B64Encode(int_to_bytes(w)) : w \in ForgedTimestamps} \cup OtherSegments

\* values of the shape  a '.' segment, as TimestampSigner.sign composes them
ShapedValues == {<<97, SEPARATOR>> \o seg : seg \in TimestampSegments}

SignerValues == Values \cup ShapedValues

\* max_age: 0, 1, 2^31 - 1, 2^31, 2^32 - 1
MaxAges == {<<0, 0>>, <<0, 1>>, <<32767, 65535>>, <<32768, 0>>, <<65535, 65535>>}

At(pre, secs) == [pre |-> pre, secs |-> secs]

\* 5 s from UNIX_EPOCH on its early side; EPOCH - 1, EPOCH, EPOCH + 1,
\* EPOCH + 10 and EPOCH + 2^31 seconds after it
ClockValues ==
    {At(TRUE, <<0, 5>>), At(FALSE, WrappingSub(EpochWord, <<0, 1>>))}
    \cup {At(FALSE, WrappingAdd(EpochWord, w)) :
            w \in {<<0, 0>>, <<0, 1>>, <<0, 10>>, <<32768, 0>>}}

\* strings that no signer issued: "", "value", "value.ABCDEF", ".", "a.",
\* "value.EWkF3-80sipsPgLQ01NuTuPb0jQ"
RawInputs ==
    {<<>>, <<118, 97, 108, 117, 101>>,
     <<118, 97, 108, 117, 101, 46, 65, 66, 67, 68, 69, 70>>,
     <<46>>, <<97, 46>>,
     <<118, 97, 108, 117, 101, 46, 69, 87, 107, 70, 51, 45, 56, 48, 115, 105,
       112, 115, 80, 103, 76, 81, 48, 49, 78, 117, 84, 117, 80, 98, 48, 106, 81>>}

\* the characters that replace character c of a signature
Replacements(c) ==
    {B64Char((B64Value(c) + k) % 64) : k \in 1..TamperSpread}
    \cup {SEPARATOR, PAD_BYTE, 33}

(***************************************************************************)
(* The state: one build of the program, one secret, the wall clock, the    *)
(* token a signer returned, the string handed to unsign, and the last      *)
(* call with what it returned.                                             *)
(***************************************************************************)
VARIABLES build, secret, clock, issued, presented, last

vars == <<build, secret, clock, issued, presented, last>>

NoClock == At(FALSE, <<0, 0>>)

NotIssued == [by |-> "none", value |-> <<>>, at |-> NoClock, token |-> <<>>]

NotPresented == [how |-> "none", token |-> <<>>, pos |-> 0]

NoCall == [op |-> "none", max_age |-> <<0, 0>>, now |-> NoClock, result |-> Ok(<<>>)]

signer == SignerNew(secret)

tsigner == TimestampSignerNew(secret)

\* the system time at the start: EPOCH
StartClock == At(FALSE, EpochWord)

Init ==
    /\ build \in [overflow_checks : BOOLEAN, check_last_symbol : BOOLEAN]
    /\ secret \in Secrets
    /\ clock = StartClock
    /\ issued = NotIssued
    /\ presented = NotPresented
    /\ last = NoCall

\* the system time changes
ClockSet(c) ==
    /\ last.op = "none"
    /\ c # clock
    /\ clock' = c
    /\ UNCHANGED <<build, secret, issued, presented, last>>

\* signer.sign(value)
SignerSignCall(value) ==
    /\ issued.by = "none" /\ presented.how = "none" /\ last.op = "none"
    /\ issued' = [by |-> "Signer", value |-> value, at |-> NoClock,
                  token |-> SignerSign(signer, value)]
    /\ UNCHANGED <<build, secret, clock, presented, last>>

\* timestamp_signer.sign(value)
TimestampSignCall(value) ==
    /\ issued.by = "none" /\ presented.how = "none" /\ last.op = "none"
    /\ LET r == TimestampSignerSign(tsigner, value, clock, build.overflow_checks)
       IN  IF r.kind = "Panic"
           THEN /\ last' = [op |-> "TimestampSigner.sign", max_age |-> <<0, 0>>,
                            now |-> clock, result |-> r]
                /\ UNCHANGED issued
           ELSE /\ issued' = [by |-> "TimestampSigner", value |-> value,
                              at |-> clock, token |-> r.value]
                /\ UNCHANGED last
    /\ UNCHANGED <<build, secret, clock, presented>>

\* the issued token comes back as it was
Present ==
    /\ issued.by # "none" /\ presented.how = "none" /\ last.op = "none"
    /\ presented' = [how |-> "intact", token |-> issued.token, pos |-> 0]
    /\ UNCHANGED <<build, secret, clock, issued, last>>

\* the places of the signature segment of a token
SignaturePlaces(t) == (LastIndexOf(t, SEPARATOR) + 1)..Len(t)

\* the issued token comes back with character i of its signature replaced by c
Tamper(i, c) ==
    /\ issued.by # "none" /\ presented.how = "none" /\ last.op = "none"
    /\ i \in SignaturePlaces(issued.token)
    /\ c # issued.token[i]
    /\ presented' = [how |-> "replaced", token |-> [issued.token EXCEPT ![i] = c],
                     pos |-> i]
    /\ UNCHANGED <<build, secret, clock, issued, last>>

\* any one character of the signature is replaced
TamperAny ==
    /\ issued.by # "none"
    /\ \E i \in SignaturePlaces(issued.token) :
        \E c \in Replacements(issued.token[i]) : Tamper(i, c)

\* the last character of the signature is replaced
TamperLast ==
    /\ issued.by # "none"
    /\ \E c \in Replacements(issued.token[Len(issued.token)]) :
        Tamper(Len(issued.token), c)

\* the issued token comes back with one character added at its end
Extend(c) ==
    /\ issued.by # "none" /\ presented.how = "none" /\ last.op = "none"
    /\ presented' = [how |-> "extended", token |-> Append(issued.token, c),
                     pos |-> Len(issued.token) + 1]
    /\ UNCHANGED <<build, secret, clock, issued, last>>

\* a string that no signer issued arrives
Submit(t) ==
    /\ issued.by = "none" /\ presented.how = "none" /\ last.op = "none"
    /\ presented' = [how |-> "raw", token |-> t, pos |-> 0]
    /\ UNCHANGED <<build, secret, clock, issued, last>>

\* signer.unsign(token)
SignerUnsignCall ==
    /\ presented.how # "none" /\ last.op = "none"
    /\ last' = [op |-> "Signer.unsign", max_age |-> <<0, 0>>, now |-> clock,
                result |-> SignerUnsign(signer, presented.token,
                                        build.check_last_symbol)]
    /\ UNCHANGED <<build, secret, clock, issued, presented>>

\* timestamp_signer.unsign(token, max_age)
TimestampUnsignCall(max_age) ==
    /\ presented.how # "none" /\ last.op = "none"
    /\ last' = [op |-> "TimestampSigner.unsign", max_age |-> max_age, now |-> clock,
                result |-> TimestampSignerUnsign(tsigner, presented.token, max_age,
                               clock, build.overflow_checks, build.check_last_symbol)]
    /\ UNCHANGED <<build, secret, clock, issued, presented>>

\* the caller takes the result; the signers keep no state between calls
Return ==
    /\ last.op # "none"
    /\ issued' = NotIssued
    /\ presented' = NotPresented
    /\ last' = NoCall
    /\ UNCHANGED <<build, secret, clock>>

(***************************************************************************)
(* Two specifications over the same state.  SignerSpec: the Signer alone,  *)
(* with every single-character change of a signature.  TimestampSpec: both *)
(* signers and the clock, with the changes of the last character only.     *)
(***************************************************************************)
SignerNext ==
    \/ \E v \in SignerValues : SignerSignCall(v)
    \/ Present
    \/ TamperAny
    \/ \E c \in {PAD_BYTE, 65} : Extend(c)
    \/ \E t \in RawInputs : Submit(t)
    \/ SignerUnsignCall
    \/ Return

SignerSpec == Init /\ [][SignerNext]_vars

TimestampNext ==
    \/ \E c \in ClockValues : ClockSet(c)
    \/ \E v \in SignerValues : SignerSignCall(v)
    \/ \E v \in Values : TimestampSignCall(v)
    \/ Present
    \/ TamperLast
    \/ \E c \in {PAD_BYTE, 65} : Extend(c)
    \/ \E t \in RawInputs : Submit(t)
    \/ SignerUnsignCall
    \/ \E m \in MaxAges : TimestampUnsignCall(m)
    \/ Return

TimestampSpec == Init /\ [][TimestampNext]_vars

(***************************************************************************)
(* What the claims speak of, read off the state.                           *)
(***************************************************************************)
SignerUnsigned == last.op = "Signer.unsign"

TimestampUnsigned == last.op = "TimestampSigner.unsign"

Intact == presented.how = "intact"

\* what Signer.unsign makes of the presented string
Outer == SignerUnsign(signer, presented.token, build.check_last_symbol)

\* the text after the last separator of v
LastSegment(v) == SubSeq(v, LastIndexOf(v, SEPARATOR) + 1, Len(v))

\* the text before the last separator of v
BeforeLastSegment(v) == SubSeq(v, 1, LastIndexOf(v, SEPARATOR) - 1)

\* the last segment of v decodes to exactly 4 bytes
FourByteSegment(v) ==
    LET t == B64Decode(LastSegment(v), build.check_last_symbol)
    IN  t.ok /\ Len(t.bytes) = 4

\* v carries a timestamp segment as TimestampSigner.unsign needs it
TimestampShaped(v) == Contains(v, SEPARATOR) /\ FourByteSegment(v)

\* le_i32(t - EPOCH) in base64, for the clock reading t
TimestampSegmentAt(t) == B64Encode(int_to_bytes(WrappingSub(t.secs, EpochWord)))

\* every character of seg is of the URL-safe alphabet and the length is one
\* an unpadded encoding can have
UrlSafeUnpadded(seg) ==
    /\ \A i \in 1..Len(seg) : B64Value(seg[i]) # -1
    /\ Len(seg) % 4 # 1

(***************************************************************************)
(* C1.  Signer round trip: unsign of what sign returned gives Ok(value)    *)
(* with the value unchanged, separators in the value included.             *)
(***************************************************************************)
C1_RoundTrip ==
    (SignerUnsigned /\ issued.by = "Signer" /\ Intact)
        => last.result = Ok(issued.value)

C1_Witness ==
    /\ SignerUnsigned /\ issued.by = "Signer" /\ Intact
    /\ Contains(issued.value, SEPARATOR)
    /\ last.result.kind = "Ok"

(***************************************************************************)
(* C2.  TimestampSigner round trip: unsign in the clock second of sign     *)
(* gives Ok(value) for every u32 max_age.                                  *)
(***************************************************************************)
C2_TimestampRoundTrip ==
    (TimestampUnsigned /\ issued.by = "TimestampSigner" /\ Intact
        /\ last.now = issued.at)
        => last.result = Ok(issued.value)

(***************************************************************************)
(* C3.  Expiry boundary: a token signed at T and verified at now >= T is   *)
(* Ok(value) when now - T <= max_age and SignatureExpired when             *)
(* now - T > max_age.                                                      *)
(***************************************************************************)
C3_ExpiryBoundary ==
    (TimestampUnsigned /\ issued.by = "TimestampSigner" /\ Intact
        /\ ~issued.at.pre /\ ~last.now.pre
        /\ ULessEq(issued.at.secs, last.now.secs))
        => IF ULessEq(WrappingSub(last.now.secs, issued.at.secs), last.max_age)
           THEN last.result = Ok(issued.value)
           ELSE last.result = Err("SignatureExpired")

C5_BadTimeSignature ==
    (TimestampUnsigned /\ Outer.kind = "Ok" /\ ~TimestampShaped(Outer.value))
        => last.result = Err("BadTimeSignature")

C5_Witness ==
    /\ TimestampUnsigned /\ issued.by = "Signer" /\ Intact
    /\ Contains(issued.value, SEPARATOR)
    /\ B64Decode(LastSegment(issued.value), build.check_last_symbol).ok
    /\ ~FourByteSegment(issued.value)
    /\ last.result.kind = "BadTimeSignature"

(***************************************************************************)
(* C6.  Signer.unsign is BadSignature for every input without a separator  *)
(* and for every input whose last segment is not URL-safe unpadded base64. *)
(***************************************************************************)
C6_MalformedIsBadSignature ==
    (SignerUnsigned
        /\ (~Contains(presented.token, SEPARATOR)
            \/ ~UrlSafeUnpadded(LastSegment(presented.token))))
        => last.result = Err("BadSignature")

(***************************************************************************)
(* C7.  Neither unsign ever panics.                                        *)
(***************************************************************************)
C7_NoPanic ==
    (SignerUnsigned \/ TimestampUnsigned) => last.result.kind # "Panic"

(***************************************************************************)
(* C8.  A validly signed token whose timestamp is later than the           *)
(* verifier's clock is Ok(value) for every u32 max_age.                    *)
(***************************************************************************)
C8_FutureAccepted ==
    (TimestampUnsigned /\ issued.by = "TimestampSigner" /\ Intact
        /\ ~issued.at.pre /\ ~last.now.pre
        /\ ULess(last.now.secs, issued.at.secs))
        => last.result = Ok(issued.value)

(***************************************************************************)
(* C9.  TimestampSigner.unsign is BadSignature exactly when Signer.unsign  *)
(* of the same string fails; BadTimeSignature and SignatureExpired come    *)
(* only after the outer signature verified, SignatureExpired only when the *)
(* timestamp segment decodes to 4 bytes; BadData never.                    *)
(***************************************************************************)
C9_CheckOrder ==
    TimestampUnsigned =>
        /\ (last.result.kind = "BadSignature") <=> (Outer.kind # "Ok")
        /\ last.result.kind \in {"BadTimeSignature", "SignatureExpired"}
              => Outer.kind = "Ok"
        /\ last.result.kind = "SignatureExpired" => TimestampShaped(Outer.value)
        /\ last.result.kind # "BadData"

C9_Witness ==
    /\ TimestampUnsigned
    /\ last.result.kind = "SignatureExpired"

(***************************************************************************)
(* C10.  TimestampSigner.sign(v) at t is Signer.sign(v '.' b64(le(t -      *)
(* EPOCH))); Signer.unsign of it is Ok of that composite; and a plain      *)
(* Signer token on a value ending in '.' and a 4-byte segment passes       *)
(* TimestampSigner.unsign as a timestamp token, which returns the part     *)
(* before the segment.                                                     *)
(***************************************************************************)
C10_SameKey ==
    /\ issued.by = "TimestampSigner" =>
          issued.token = SignerSign(SignerNew(secret),
              issued.value \o <<SEPARATOR>> \o TimestampSegmentAt(issued.at))
    /\ (SignerUnsigned /\ issued.by = "TimestampSigner" /\ Intact) =>
          last.result = Ok(issued.value \o <<SEPARATOR>>
                              \o TimestampSegmentAt(issued.at))
    /\ (TimestampUnsigned /\ issued.by = "Signer" /\ Intact
            /\ TimestampShaped(issued.value)) =>
          /\ last.result.kind \in {"Ok", "SignatureExpired", "Panic"}
          /\ last.result.kind = "Ok"
                => last.result.value = BeforeLastSegment(issued.value)

C10_Witness ==
    /\ TimestampUnsigned /\ issued.by = "Signer" /\ Intact
    /\ TimestampShaped(issued.value)
    /\ last.result.kind = "Ok"

====
